---- MODULE Spec2Model ----
(***************************************************************************)
(* Inventory / billing server: the storage layer (server/storage.ts) and   *)
(* the HTTP handlers that call it (server/routes.ts).                      *)
(*                                                                         *)
(* Money is held in hundredths (paise): a numeric(12,2) column is an       *)
(* integer number of hundredths, and Number.toFixed(2) is the rounding of  *)
(* a quotient to the nearest hundredth.  Purchase prices of requests are   *)
(* amounts with at most two decimals; selling prices of requests are in    *)
(* tenths of a hundredth, as z.number() takes prices with more decimals.   *)
(* Strings are sequences of one-character strings.                        *)
(* A request runs as a sequence of steps, one per statement group of its   *)
(* handler; between the first step and the last the request owns the open  *)
(* transaction tx, whose working tables tx.t replace db on commit.         *)
(***************************************************************************)
EXTENDS Integers, Sequences, FiniteSets, TLC

VARIABLES
    db,        \* the committed tables
    seq,       \* the serial id generators of the tables (never rolled back)
    tx,        \* the open transaction and the position of its handler
    response,  \* what the last request answered
    hist       \* history: the committed tables before the last finished request

vars == <<db, seq, tx, response, hist>>

----------------------------------------------------------------------------
(* Bounds of the model *)

MaxBuyBills == 2
MaxSellBills == 1
MaxItems == 2
MaxLedgerSellBills == 2
MaxExpenses == 2

----------------------------------------------------------------------------
(* Values *)

NoTx == [op |-> "none"]

NoResponse == [op |-> "none", status |-> 0]

NoHist == [op |-> "none"]

\* The products before the create that a delete undoes, when the delete is
\* the request right after that create.
NoOrigin == [known |-> FALSE]

Abs(x) == IF x < 0 THEN -x ELSE x

\* Number.prototype.toFixed(2) of the quotient num / den (den > 0), in
\* hundredths: the nearest hundredth.  At an exact decimal tie the error of
\* the binary quotient decides the direction, so either neighbour can come out.
ToFixed2(num, den) ==
    LET n == Abs(num)
        lo == n \div den
        rem == n % den
        near == IF 2 * rem < den THEN {lo}
                ELSE IF 2 * rem > den THEN {lo + 1}
                ELSE {lo, lo + 1}
    IN  {IF num < 0 THEN -r ELSE r : r \in near}

RECURSIVE SumOver(_, _)
\* Array.prototype.reduce((sum, x) => sum + f[x], 0) and SQL sum(): the sum of
\* f over the rows S.
SumOver(S, f) ==
    IF S = {} THEN 0
    ELSE LET x == CHOOSE y \in S : TRUE
         IN  f[x] + SumOver(S \ {x}, f)

----------------------------------------------------------------------------
(* Strings of the unique identifier *)

\* String.prototype.toLowerCase on the characters the requests use.
LowerChar(c) ==
    CASE c = "A" -> "a"
      [] c = "B" -> "b"
      [] c = "C" -> "c"
      [] OTHER -> c

ToLowerCase(s) == [i \in 1..Len(s) |-> LowerChar(s[i])]

IsSpace(c) == c = " "

RECURSIVE ReplaceSpaces(_)
\* replace(/\s+/g, '-'): every maximal run of white space becomes one '-'.
ReplaceSpaces(s) ==
    IF s = <<>> THEN <<>>
    ELSE IF IsSpace(Head(s))
         THEN IF Len(s) > 1 /\ IsSpace(s[2])
              THEN ReplaceSpaces(Tail(s))
              ELSE <<"-">> \o ReplaceSpaces(Tail(s))
         ELSE <<Head(s)>> \o ReplaceSpaces(Tail(s))

RECURSIVE Join(_)
\* Array.prototype.join("-")
Join(parts) ==
    IF parts = <<>> THEN <<>>
    ELSE IF Len(parts) = 1 THEN parts[1]
    ELSE parts[1] \o <<"-">> \o Join(Tail(parts))

\* filter(Boolean): the empty string and undefined (both <<>> here) are dropped.
FilterBoolean(parts) == SelectSeq(parts, LAMBDA p : p # <<>>)

\* The identifier of a purchase line: the one given, else name-company-productId.
UniqueIdOf(item) ==
    IF item.uniqueId # <<>>
    THEN item.uniqueId
    ELSE ReplaceSpaces(ToLowerCase(Join(FilterBoolean(
             <<item.name, item.company, item.productId>>))))

----------------------------------------------------------------------------
(* Requests the API accepts *)

\* Purchase lines name their product by an explicit identifier or leave it to
\* be derived; z.string() and z.number() put no range on any field.
KeyA == [uniqueId |-> <<"a">>, name |-> <<"A">>, company |-> <<"B">>,
         productId |-> <<>>]

KeyB == [uniqueId |-> <<>>, name |-> <<"A", " ", " ", "B">>,
         company |-> <<"C">>, productId |-> <<>>]

IdA == <<"a">>

IdB == <<"a", "-", "b", "-", "c">>

IdUnknown == <<"z">>

\* The identifiers GET /api/products/:uniqueId is asked for.
LookupIds == {IdA, <<"A">>, IdB, IdUnknown}

BuyPrices == {100, 201}

BuyQuantities == {-1, 2}

\* Selling prices of requests, in tenths of a hundredth: 1.500 and 1.504.
SellPrices == {1500, 1504}

WholeCentSellPrices == {1500}

SellQuantities == {1, 2}

\* Dates are <<year, month, day>>.
BuyDates == {<<2026, 11, 1>>}

SellDates == {<<2026, 11, 1>>}

BuyLines(keys, prices, quantities) ==
    { [uniqueId |-> k.uniqueId, name |-> k.name, company |-> k.company,
       productId |-> k.productId, buyPrice |-> p, quantity |-> n] :
      k \in keys, p \in prices, n \in quantities }

BuyItems == BuyLines({KeyA}, BuyPrices, BuyQuantities) \cup BuyLines({KeyB}, {100}, {2})

SellItems ==
    [uniqueId : {IdA}, sellingPrice : WholeCentSellPrices, quantity : SellQuantities]
    \cup [uniqueId : {IdA}, sellingPrice : SellPrices \ WholeCentSellPrices,
          quantity : {2}]
    \cup [uniqueId : {IdB, IdUnknown}, sellingPrice : WholeCentSellPrices,
          quantity : {1}]

LedgerSellDates ==
    {<<2026, 10, 31>>, <<2026, 11, 1>>, <<2026, 12, 1>>, <<2027, 1, 1>>}

ExpenseDates == {<<2026, 10, 31>>, <<2026, 11, 1>>, <<2026, 12, 1>>}

ExpenseAmounts == {70}

\* The server's clock, and whether its time zone is ahead of UTC.
Nows == {<<2026, 11, 2>>}

DashboardRequests ==
    {[hasYear |-> FALSE]} \cup [hasYear : {TRUE}, year : {2026, 2027}]

SeqsUpTo(S, n) == UNION { [1..k -> S] : k \in 1..n }

CreateBuyBillRequests == [billDate : BuyDates, items : SeqsUpTo(BuyItems, MaxItems)]

CreateSellBillRequests == [billDate : SellDates, items : SeqsUpTo(SellItems, MaxItems)]

\* The requests of the ledger runs: one product bought at either price, sold
\* one unit a bill on any of the dates.
LedgerBuyRequests ==
    [billDate : BuyDates, items : SeqsUpTo(BuyLines({KeyA}, BuyPrices, {2}), 1)]

LedgerSellRequests ==
    [billDate : LedgerSellDates,
     items : SeqsUpTo([uniqueId : {IdA}, sellingPrice : WholeCentSellPrices,
                       quantity : {1}], 1)]

CreateExpenseRequests == [amount : ExpenseAmounts, expenseDate : ExpenseDates]

\* gstPercentage of a request that gives one.
GstPercentages == {5, 18}

\* Sales of one product at whole-cent prices, with the optional gstPercentage
\* given or left out.
TaxedSellRequests ==
    LET items == SeqsUpTo([uniqueId : {IdA}, sellingPrice : WholeCentSellPrices,
                           quantity : SellQuantities], MaxItems)
    IN  [billDate : SellDates, items : items]
        \cup [billDate : SellDates, items : items, gstPercentage : GstPercentages]

\* api.bills.createPurchase.input.parse(body): z.object with billDate and
\* items required, every item with name, company, buyPrice and quantity.
CreatePurchaseInput(body) ==
    /\ {"billDate", "items"} \subseteq DOMAIN body
    /\ \A i \in DOMAIN body.items :
           {"name", "company", "buyPrice", "quantity"} \subseteq DOMAIN body.items[i]

\* api.bills.createSell.input.parse(body): billDate and items required,
\* every item with uniqueId, sellingPrice and quantity.
CreateSellInput(body) ==
    /\ {"billDate", "items"} \subseteq DOMAIN body
    /\ \A i \in DOMAIN body.items :
           {"uniqueId", "sellingPrice", "quantity"} \subseteq DOMAIN body.items[i]

\* Bodies the schemas refuse: no items, an item with no quantity.
MalformedPurchaseBodies ==
    { [billDate |-> <<2026, 11, 1>>],
      [billDate |-> <<2026, 11, 1>>,
       items |-> <<[name |-> <<"A">>, company |-> <<"B">>, buyPrice |-> 100]>>] }

MalformedSellBodies ==
    { [billDate |-> <<2026, 11, 1>>],
      [billDate |-> <<2026, 11, 1>>,
       items |-> <<[uniqueId |-> <<"a">>, sellingPrice |-> 1500]>>] }

----------------------------------------------------------------------------
(* Tables *)

EmptyTables ==
    [products |-> {}, buyBills |-> {}, buyBillItems |-> {},
     sellBills |-> {}, sellBillItems |-> {}, expenses |-> {}]

\* A slip in the lookup: it reads the committed tables, blind to the rows the
\* transaction inserted.
ProductsByUniqueIdCommitted(t, uniqueId) ==
    {p \in db.products : p.uniqueId = uniqueId}

\* tx.select().from(products).where(eq(products.uniqueId, uniqueId))
ProductsByUniqueId(t, uniqueId) == {p \in t.products : p.uniqueId = uniqueId}

\* tx.select().from(products).where(eq(products.id, id))
ProductsById(t, id) == {p \in t.products : p.id = id}

\* tx.update(products).set(fields).where(eq(products.id, id))
UpdateProduct(t, id, quantity, averageBuyPrice) ==
    [t EXCEPT !.products =
        { IF p.id = id
          THEN [p EXCEPT !.quantity = quantity,
                         !.averageBuyPrice = averageBuyPrice]
          ELSE p : p \in @ }]

\* db.transaction: the callback's writes replace the committed tables when it
\* returns, and are discarded when it throws.
Commit(committed, t) == t

\* A slip: the statements run outside the transaction, so a throw leaves the
\* writes made before it.
RollbackKeepsWrites(committed, t) == t

Rollback(committed, t) == committed

Init ==
    /\ db = EmptyTables
    /\ seq = [products |-> 1, buyBills |-> 1, buyBillItems |-> 1,
              sellBills |-> 1, sellBillItems |-> 1, expenses |-> 1]
    /\ tx = NoTx
    /\ response = NoResponse
    /\ hist = NoHist

\* timestamp("created_at").defaultNow() of a bill header: the time its
\* transaction starts, later for every later bill.
Now == seq.buyBills + seq.sellBills

\* History of a failed request: the committed tables before it and the
\* transaction (tables, position) at the statement that threw.
\* History kept while a delete runs: the products before the create it undoes,
\* when that create is the request that finished last.
Undoing(createOp, id) ==
    IF hist.op = createOp /\ hist.outcome = "committed" /\ hist.id = id
    THEN [op |-> "undoing", origin |-> [known |-> TRUE,
                                        products |-> hist.before.products]]
    ELSE NoHist

Origin == IF hist.op = "undoing" THEN hist.origin ELSE NoOrigin

\* A slip in the catch block: the error is swallowed and the handler answers
\* as if the request had gone through.
ErrorResponseAsSuccess(op, message) ==
    [op |-> op, status |-> 200, message |-> message]

\* res.status(400).json({ message: err.message })
ErrorResponse(op, message) == [op |-> op, status |-> 400, message |-> message]

\* The catch block of a bill handler, reached from inside the transaction.
Fail(op, message) ==
    /\ db' = Rollback(db, tx.t)
    /\ tx' = NoTx
    /\ response' = ErrorResponse(op, message)
    /\ hist' = [op |-> op, outcome |-> "failed", before |-> db, at |-> tx]

----------------------------------------------------------------------------
(* GET /api/products/:uniqueId *)

\* A slip in the lookup: the identifiers are compared without their case.
getProductByUniqueIdAnyCase(uniqueId) ==
    {p \in db.products : ToLowerCase(p.uniqueId) = ToLowerCase(uniqueId)}

\* db.select().from(products).where(eq(products.uniqueId, uniqueId)): the
\* rows found, at most one as the column is unique.
getProductByUniqueId(uniqueId) == {p \in db.products : p.uniqueId = uniqueId}

GetProduct(uniqueId) ==
    /\ tx = NoTx
    /\ LET found == getProductByUniqueId(uniqueId)
       IN  response' =
             IF found = {}
             THEN [op |-> "getProduct", status |-> 404, uniqueId |-> uniqueId,
                   message |-> [kind |-> "productNotFound"]]
             ELSE [op |-> "getProduct", status |-> 200, uniqueId |-> uniqueId,
                   product |-> CHOOSE p \in found : TRUE]
    /\ hist' = NoHist
    /\ UNCHANGED <<db, seq, tx>>

----------------------------------------------------------------------------
(* POST /api/purchase-bills: createBuyBill *)

\* totalAmount of the header: the sum of buyPrice * quantity over the lines.
BuyTotalAmount(items) ==
    SumOver(DOMAIN items, [i \in DOMAIN items |-> items[i].buyPrice * items[i].quantity])

\* A slip in the average: the mean of the two prices, the quantities ignored.
NewAverageUnweighted(oldAvg, oldQty, newPrice, newQty) ==
    ToFixed2(oldAvg + newPrice, 2)

\* The new average: ((oldAvg * oldQty) + (newPrice * newQty)) / (oldQty + newQty),
\* as the values newAvg.toFixed(2) can store.
NewAverage(oldAvg, oldQty, newPrice, newQty) ==
    LET totalValue == (oldAvg * oldQty) + (newPrice * newQty)
        totalQty == oldQty + newQty
    IN  IF totalQty > 0 THEN ToFixed2(totalValue, totalQty) ELSE {0}

\* input.parse(req.body) throws a ZodError before the storage is called.
CreateBuyBillInvalid(body) ==
    /\ tx = NoTx
    /\ ~CreatePurchaseInput(body)
    /\ response' = ErrorResponse("createBuyBill", [kind |-> "validation"])
    /\ hist' = [op |-> "createBuyBill", outcome |-> "failed", before |-> db,
                at |-> NoTx]
    /\ UNCHANGED <<db, seq, tx>>

BeginCreateBuyBill(req) ==
    /\ tx = NoTx
    /\ CreatePurchaseInput(req)
    /\ LET bill == [id |-> seq.buyBills, billDate |-> req.billDate,
                    totalAmount |-> BuyTotalAmount(req.items),
                    createdAt |-> Now]
       IN  tx' = [op |-> "createBuyBill", items |-> req.items, i |-> 1,
                  bill |-> bill,
                  t |-> [db EXCEPT !.buyBills = @ \cup {bill}],
                  prev |-> db]
    /\ seq' = [seq EXCEPT !.buyBills = @ + 1]
    /\ response' = NoResponse
    /\ hist' = NoHist
    /\ UNCHANGED db

BuyLine ==
    /\ tx.op = "createBuyBill"
    /\ tx.i <= Len(tx.items)
    /\ LET item == tx.items[tx.i]
           uniqueId == UniqueIdOf(item)
           found == ProductsByUniqueId(tx.t, uniqueId)
           created == [id |-> seq.products, name |-> item.name,
                       company |-> item.company, productId |-> item.productId,
                       uniqueId |-> uniqueId, quantity |-> 0,
                       averageBuyPrice |-> 0]
           product == IF found = {} THEN created ELSE CHOOSE p \in found : TRUE
           t1 == IF found = {}
                 THEN [tx.t EXCEPT !.products = @ \cup {created}]
                 ELSE tx.t
           totalQty == product.quantity + item.quantity
           line == [id |-> seq.buyBillItems, billId |-> tx.bill.id,
                    productRef |-> product.id, uniqueId |-> uniqueId,
                    buyPrice |-> item.buyPrice, quantity |-> item.quantity,
                    totalCost |-> item.buyPrice * item.quantity]
       IN  /\ \E newAvg \in NewAverage(product.averageBuyPrice, product.quantity,
                                        item.buyPrice, item.quantity) :
                LET t2 == UpdateProduct(t1, product.id, totalQty, newAvg)
                IN  tx' = [tx EXCEPT
                             !.i = @ + 1,
                             !.t = [t2 EXCEPT !.buyBillItems = @ \cup {line}],
                             !.prev = tx.t]
           /\ seq' = [seq EXCEPT !.products = IF found = {} THEN @ + 1 ELSE @,
                                 !.buyBillItems = @ + 1]
    /\ UNCHANGED <<db, response, hist>>

CommitCreateBuyBill ==
    /\ tx.op = "createBuyBill"
    /\ tx.i > Len(tx.items)
    /\ db' = Commit(db, tx.t)
    /\ tx' = NoTx
    /\ response' = [op |-> "createBuyBill", status |-> 201, bill |-> tx.bill]
    /\ hist' = [op |-> "createBuyBill", outcome |-> "committed",
                id |-> tx.bill.id, before |-> db]
    /\ UNCHANGED seq

----------------------------------------------------------------------------
(* POST /api/sell-bills: createSellBill *)

\* A slip in the stock update: a product sold out loses its average cost.
SetProductQuantityResetsAverage(t, id, quantity) ==
    [t EXCEPT !.products =
        { IF p.id = id
          THEN [p EXCEPT !.quantity = quantity,
                         !.averageBuyPrice = IF quantity = 0 THEN 0 ELSE @]
          ELSE p : p \in @ }]

\* tx.update(products).set({ quantity }).where(eq(products.id, id))
SetProductQuantity(t, id, quantity) ==
    [t EXCEPT !.products =
        { IF p.id = id THEN [p EXCEPT !.quantity = quantity] ELSE p : p \in @ }]

\* A slip in the stock check: one unit more than the stock passes.
InsufficientStockOffByOne(product, item) == product.quantity + 1 < item.quantity

\* The stock check of a sale line: the line is refused when it asks for more
\* than the product holds.
InsufficientStock(product, item) == product.quantity < item.quantity

CreateSellBillInvalid(body) ==
    /\ tx = NoTx
    /\ ~CreateSellInput(body)
    /\ response' = ErrorResponse("createSellBill", [kind |-> "validation"])
    /\ hist' = [op |-> "createSellBill", outcome |-> "failed", before |-> db,
                at |-> NoTx]
    /\ UNCHANGED <<db, seq, tx>>

\* req.gstPercentage, <<>> when the request gives none.
GstPercentageOf(req) ==
    IF "gstPercentage" \in DOMAIN req THEN <<req.gstPercentage>> ELSE <<>>

\* A slip in the totals: the tax is left at the 0 of the header.
GstAmountLeftZero(billTotalAmount, gstPercentage) == {0}

\* req.gstPercentage != null ? (billTotalAmount * req.gstPercentage) / 100 : 0
\* as the values gstAmount.toFixed(2) can store; billTotalAmount is in tenths
\* of a hundredth.
GstAmount(billTotalAmount, gstPercentage) ==
    IF gstPercentage # <<>>
    THEN ToFixed2(billTotalAmount * gstPercentage[1], 1000)
    ELSE {0}

BeginCreateSellBill(req) ==
    /\ tx = NoTx
    /\ CreateSellInput(req)
    /\ LET bill == [id |-> seq.sellBills, billDate |-> req.billDate,
                    gstPercentage |-> GstPercentageOf(req), gstAmount |-> 0,
                    totalProfit |-> 0, totalAmount |-> 0, createdAt |-> Now]
       IN  tx' = [op |-> "createSellBill", items |-> req.items, i |-> 1,
                  bill |-> bill, billTotalProfit |-> 0, billTotalAmount |-> 0,
                  t |-> [db EXCEPT !.sellBills = @ \cup {bill}],
                  prev |-> db]
    /\ seq' = [seq EXCEPT !.sellBills = @ + 1]
    /\ response' = NoResponse
    /\ hist' = NoHist
    /\ UNCHANGED db

SellLine ==
    /\ tx.op = "createSellBill"
    /\ tx.i <= Len(tx.items)
    /\ LET item == tx.items[tx.i]
           found == ProductsByUniqueId(tx.t, item.uniqueId)
       IN  /\ found # {}
           /\ LET product == CHOOSE p \in found : TRUE
                  \* the locals of the loop, in tenths of a hundredth
                  profitPerUnit == item.sellingPrice - 10 * product.averageBuyPrice
                  totalItemProfit == profitPerUnit * item.quantity
                  totalItemAmount == item.sellingPrice * item.quantity
                  t1 == SetProductQuantity(tx.t, product.id,
                                           product.quantity - item.quantity)
              IN  /\ ~InsufficientStock(product, item)
                  /\ \E sellingPrice \in ToFixed2(item.sellingPrice, 10),
                        perUnit \in ToFixed2(profitPerUnit, 10),
                        total \in ToFixed2(totalItemProfit, 10) :
                       LET line == [id |-> seq.sellBillItems,
                                    billId |-> tx.bill.id,
                                    productRef |-> product.id,
                                    uniqueId |-> product.uniqueId,
                                    sellingPrice |-> sellingPrice,
                                    quantity |-> item.quantity,
                                    profitPerUnit |-> perUnit,
                                    totalProfit |-> total]
                       IN  tx' = [tx EXCEPT
                                !.i = @ + 1,
                                !.billTotalProfit = @ + totalItemProfit,
                                !.billTotalAmount = @ + totalItemAmount,
                                !.t = [t1 EXCEPT !.sellBillItems = @ \cup {line}],
                                !.prev = tx.t]
    /\ seq' = [seq EXCEPT !.sellBillItems = @ + 1]
    /\ UNCHANGED <<db, response, hist>>

\* throw new Error(`Product ${item.uniqueId} not found`)
SellLineNotFound ==
    /\ tx.op = "createSellBill"
    /\ tx.i <= Len(tx.items)
    /\ ProductsByUniqueId(tx.t, tx.items[tx.i].uniqueId) = {}
    /\ Fail("createSellBill",
            [kind |-> "notFound", uniqueId |-> tx.items[tx.i].uniqueId])
    /\ UNCHANGED seq

\* A slip in the message: the product is not named.
InsufficientStockMessageAnonymous(product) ==
    [kind |-> "insufficient", name |-> <<>>, available |-> product.quantity]

\* `Insufficient stock for ${product.name}. Available: ${product.quantity}`
InsufficientStockMessage(product) ==
    [kind |-> "insufficient", name |-> product.name,
     available |-> product.quantity]

\* throw new Error(`Insufficient stock for ...`)
SellLineInsufficient ==
    /\ tx.op = "createSellBill"
    /\ tx.i <= Len(tx.items)
    /\ LET item == tx.items[tx.i]
           found == ProductsByUniqueId(tx.t, item.uniqueId)
       IN  /\ found # {}
           /\ LET product == CHOOSE p \in found : TRUE
              IN  /\ InsufficientStock(product, item)
                  /\ Fail("createSellBill", InsufficientStockMessage(product))
    /\ UNCHANGED seq

CommitCreateSellBill ==
    /\ tx.op = "createSellBill"
    /\ tx.i > Len(tx.items)
    /\ \E totalProfit \in ToFixed2(tx.billTotalProfit, 10),
          totalAmount \in ToFixed2(tx.billTotalAmount, 10),
          gstAmount \in GstAmount(tx.billTotalAmount, tx.bill.gstPercentage) :
         LET updatedBill == [tx.bill EXCEPT !.totalProfit = totalProfit,
                                            !.totalAmount = totalAmount,
                                            !.gstAmount = gstAmount]
             t1 == [tx.t EXCEPT !.sellBills =
                       { IF b.id = tx.bill.id THEN updatedBill ELSE b : b \in @ }]
         IN  /\ db' = Commit(db, t1)
             /\ response' = [op |-> "createSellBill", status |-> 201,
                             bill |-> updatedBill]
    /\ tx' = NoTx
    /\ hist' = [op |-> "createSellBill", outcome |-> "committed",
                id |-> tx.bill.id, before |-> db]
    /\ UNCHANGED seq

----------------------------------------------------------------------------
(* DELETE /api/purchase-bills/:id: deleteBuyBill *)

\* The reversed average: (currentTotalVal - itemTotalVal) / newQty, 0 at no
\* stock, as the values newAvg.toFixed(2) can store.
ReversedAverage(product, item) ==
    LET newQty == product.quantity - item.quantity
        currentTotalVal == product.averageBuyPrice * product.quantity
        itemTotalVal == item.totalCost
        remainingTotalVal == currentTotalVal - itemTotalVal
    IN  IF newQty > 0 THEN ToFixed2(remainingTotalVal, newQty) ELSE {0}

\* if (newQty < 0) throw
WouldGoNegative(product, item) == product.quantity - item.quantity < 0

BeginDeleteBuyBill(id) ==
    /\ tx = NoTx
    /\ tx' = [op |-> "deleteBuyBill", id |-> id,
              remaining |-> {it \in db.buyBillItems : it.billId = id},
              t |-> db, prev |-> db, last |-> <<>>]
    /\ response' = NoResponse
    /\ hist' = Undoing("createBuyBill", id)
    /\ UNCHANGED <<db, seq>>

\* One turn of the loop over the bill's lines; the select that lists them has
\* no ORDER BY, so the lines come in any order.
DeleteBuyLine ==
    /\ tx.op = "deleteBuyBill"
    /\ \E item \in tx.remaining :
         LET found == ProductsById(tx.t, item.productRef)
         IN  IF found = {}
             THEN tx' = [tx EXCEPT !.remaining = @ \ {item},
                                   !.prev = tx.t, !.last = <<item>>]
             ELSE LET product == CHOOSE p \in found : TRUE
                  IN  /\ ~WouldGoNegative(product, item)
                      /\ \E newAvg \in ReversedAverage(product, item) :
                           tx' = [tx EXCEPT
                                    !.remaining = @ \ {item},
                                    !.t = UpdateProduct(tx.t, product.id,
                                              product.quantity - item.quantity,
                                              newAvg),
                                    !.prev = tx.t,
                                    !.last = <<item>>]
    /\ UNCHANGED <<db, seq, response, hist>>

\* throw new Error(`Cannot delete bill: Product ... would have negative stock.`)
DeleteBuyLineRefused ==
    /\ tx.op = "deleteBuyBill"
    /\ \E item \in tx.remaining :
         LET found == ProductsById(tx.t, item.productRef)
         IN  /\ found # {}
             /\ LET product == CHOOSE p \in found : TRUE
                IN  /\ WouldGoNegative(product, item)
                    /\ Fail("deleteBuyBill",
                            [kind |-> "negativeStock", name |-> product.name])
    /\ UNCHANGED seq

\* A slip in the deletion: the products of the bill's lines go with the bill.
CommitDeleteBuyBillDropsProducts ==
    /\ tx.op = "deleteBuyBill"
    /\ tx.remaining = {}
    /\ LET lines == {it \in tx.t.buyBillItems : it.billId = tx.id}
       IN  db' = Commit(db, [tx.t EXCEPT
                 !.products = {p \in @ : \A it \in lines : it.productRef # p.id},
                 !.buyBillItems = {it \in @ : it.billId # tx.id},
                 !.buyBills = {b \in @ : b.id # tx.id}])
    /\ tx' = NoTx
    /\ response' = [op |-> "deleteBuyBill", status |-> 200]
    /\ hist' = [op |-> "deleteBuyBill", outcome |-> "committed", id |-> tx.id,
                before |-> db, origin |-> Origin]
    /\ UNCHANGED seq

\* A slip in the deletion: the profit of the sale lines on record is put in
\* line with the average cost the deletion leaves.
CommitDeleteBuyBillReprices ==
    /\ tx.op = "deleteBuyBill"
    /\ tx.remaining = {}
    /\ LET average(id) ==
               (CHOOSE p \in tx.t.products : p.id = id).averageBuyPrice
       IN  db' = Commit(db, [tx.t EXCEPT
                 !.sellBillItems =
                     { [it EXCEPT !.profitPerUnit =
                            it.sellingPrice - average(it.productRef),
                                  !.totalProfit =
                            (it.sellingPrice - average(it.productRef))
                                * it.quantity] : it \in @ },
                 !.buyBillItems = {it \in @ : it.billId # tx.id},
                 !.buyBills = {b \in @ : b.id # tx.id}])
    /\ tx' = NoTx
    /\ response' = [op |-> "deleteBuyBill", status |-> 200]
    /\ hist' = [op |-> "deleteBuyBill", outcome |-> "committed", id |-> tx.id,
                before |-> db, origin |-> Origin]
    /\ UNCHANGED seq

\* A slip in the deletion: a bill that is not on record is an error.
CommitDeleteBuyBillNeedsHeader ==
    /\ tx.op = "deleteBuyBill"
    /\ tx.remaining = {}
    /\ IF \E b \in tx.t.buyBills : b.id = tx.id
       THEN /\ db' = Commit(db, [tx.t EXCEPT
                       !.buyBillItems = {it \in @ : it.billId # tx.id},
                       !.buyBills = {b \in @ : b.id # tx.id}])
            /\ tx' = NoTx
            /\ response' = [op |-> "deleteBuyBill", status |-> 200]
            /\ hist' = [op |-> "deleteBuyBill", outcome |-> "committed",
                        id |-> tx.id, before |-> db, origin |-> Origin]
       ELSE Fail("deleteBuyBill", [kind |-> "notFound"])
    /\ UNCHANGED seq

CommitDeleteBuyBill ==
    /\ tx.op = "deleteBuyBill"
    /\ tx.remaining = {}
    /\ db' = Commit(db, [tx.t EXCEPT
                 !.buyBillItems = {it \in @ : it.billId # tx.id},
                 !.buyBills = {b \in @ : b.id # tx.id}])
    /\ tx' = NoTx
    /\ response' = [op |-> "deleteBuyBill", status |-> 200]
    /\ hist' = [op |-> "deleteBuyBill", outcome |-> "committed", id |-> tx.id,
                before |-> db, origin |-> Origin]
    /\ UNCHANGED seq

----------------------------------------------------------------------------
(* DELETE /api/sell-bills/:id: deleteSellBill *)

\* A slip in the restore: the quantity is set to the line's, not raised by it.
AddProductQuantityOverwrites(t, id, n) ==
    [t EXCEPT !.products =
        { IF p.id = id THEN [p EXCEPT !.quantity = n] ELSE p : p \in @ }]

\* UPDATE products SET quantity = quantity + n WHERE id = productRef
AddProductQuantity(t, id, n) ==
    [t EXCEPT !.products =
        { IF p.id = id THEN [p EXCEPT !.quantity = @ + n] ELSE p : p \in @ }]

BeginDeleteSellBill(id) ==
    /\ tx = NoTx
    /\ tx' = [op |-> "deleteSellBill", id |-> id,
              remaining |-> {it \in db.sellBillItems : it.billId = id},
              t |-> db, prev |-> db, last |-> <<>>]
    /\ response' = NoResponse
    /\ hist' = Undoing("createSellBill", id)
    /\ UNCHANGED <<db, seq>>

DeleteSellLine ==
    /\ tx.op = "deleteSellBill"
    /\ \E item \in tx.remaining :
         tx' = [tx EXCEPT
                  !.remaining = @ \ {item},
                  !.t = AddProductQuantity(tx.t, item.productRef, item.quantity),
                  !.prev = tx.t,
                  !.last = <<item>>]
    /\ UNCHANGED <<db, seq, response, hist>>

\* A slip in the deletion: the lines go, the header stays.
CommitDeleteSellBillKeepsHeader ==
    /\ tx.op = "deleteSellBill"
    /\ tx.remaining = {}
    /\ db' = Commit(db, [tx.t EXCEPT
                 !.sellBillItems = {it \in @ : it.billId # tx.id}])
    /\ tx' = NoTx
    /\ response' = [op |-> "deleteSellBill", status |-> 200]
    /\ hist' = [op |-> "deleteSellBill", outcome |-> "committed", id |-> tx.id,
                before |-> db, origin |-> Origin]
    /\ UNCHANGED seq

CommitDeleteSellBill ==
    /\ tx.op = "deleteSellBill"
    /\ tx.remaining = {}
    /\ db' = Commit(db, [tx.t EXCEPT
                 !.sellBillItems = {it \in @ : it.billId # tx.id},
                 !.sellBills = {b \in @ : b.id # tx.id}])
    /\ tx' = NoTx
    /\ response' = [op |-> "deleteSellBill", status |-> 200]
    /\ hist' = [op |-> "deleteSellBill", outcome |-> "committed", id |-> tx.id,
                before |-> db, origin |-> Origin]
    /\ UNCHANGED seq

----------------------------------------------------------------------------
(* POST /api/expenses, DELETE /api/expenses/:id *)

CreateExpense(req) ==
    /\ tx = NoTx
    /\ LET expense == [id |-> seq.expenses, amount |-> req.amount,
                       expenseDate |-> req.expenseDate]
       IN  /\ db' = [db EXCEPT !.expenses = @ \cup {expense}]
           /\ response' = [op |-> "createExpense", status |-> 201,
                           expense |-> expense]
    /\ seq' = [seq EXCEPT !.expenses = @ + 1]
    /\ hist' = [op |-> "createExpense", outcome |-> "committed",
                id |-> seq.expenses, before |-> db]
    /\ UNCHANGED tx

\* A slip in the deletion: the sale bill of the same id goes with the expense.
DeleteExpenseAndSellBill(id) ==
    /\ tx = NoTx
    /\ db' = [db EXCEPT !.expenses = {e \in @ : e.id # id},
                        !.sellBills = {b \in @ : b.id # id}]
    /\ response' = [op |-> "deleteExpense", status |-> 200]
    /\ hist' = [op |-> "deleteExpense", outcome |-> "committed", id |-> id,
                before |-> db]
    /\ UNCHANGED <<tx, seq>>

DeleteExpense(id) ==
    /\ tx = NoTx
    /\ db' = [db EXCEPT !.expenses = {e \in @ : e.id # id}]
    /\ response' = [op |-> "deleteExpense", status |-> 200]
    /\ hist' = [op |-> "deleteExpense", outcome |-> "committed", id |-> id,
                before |-> db]
    /\ UNCHANGED <<tx, seq>>

----------------------------------------------------------------------------
(* GET /api/dashboard/stats: getDashboardStats *)

\* The comparison of two SQL dates: a <= b
DateLE(a, b) ==
    \/ a[1] < b[1]
    \/ a[1] = b[1] /\ a[2] < b[2]
    \/ a[1] = b[1] /\ a[2] = b[2] /\ a[3] <= b[3]

\* x BETWEEN lo AND hi
Between(x, lo, hi) == DateLE(lo, x) /\ DateLE(x, hi)

\* TO_CHAR(date, 'YYYY-MM')
MonthOf(date) == <<date[1], date[2]>>

LastDayOf(year, month) ==
    IF month \in {4, 6, 9, 11} THEN 30
    ELSE IF month # 2 THEN 31
    ELSE IF year % 4 = 0 /\ (year % 100 # 0 \/ year % 400 = 0) THEN 29
    ELSE 28

\* new Date(now.getFullYear(), now.getMonth(), 1).toISOString().split('T')[0]:
\* local midnight of the first of the month, printed as a UTC date, which is
\* the day before when the server's zone is ahead of UTC.
StartOfMonth(now, zoneAhead) ==
    IF ~zoneAhead THEN <<now[1], now[2], 1>>
    ELSE IF now[2] = 1 THEN <<now[1] - 1, 12, 31>>
    ELSE <<now[1], now[2] - 1, LastDayOf(now[1], now[2] - 1)>>

\* year ?? now.getFullYear()
TargetYear(req, now) == IF req.hasYear THEN req.year ELSE now[1]

TotalProfit(bills) == SumOver(bills, [b \in bills |-> b.totalProfit])

TotalAmount(bills) == SumOver(bills, [b \in bills |-> b.totalAmount])

TotalExpense(exps) == SumOver(exps, [e \in exps |-> e.amount])

RECURSIVE Ascending(_)
\* ORDER BY month ASC
Ascending(months) ==
    IF months = {} THEN <<>>
    ELSE LET first == CHOOSE m \in months :
                        \A o \in months : DateLE(<<m[1], m[2], 1>>, <<o[1], o[2], 1>>)
         IN  <<first>> \o Ascending(months \ {first})

\* A slip in the chart query: an inner join, which drops the months that have
\* rows on one side only.
ChartRowsInnerJoin(t, startOfYear, endOfYear) ==
    LET salesRows == {b \in t.sellBills : Between(b.billDate, startOfYear, endOfYear)}
        expsRows == {e \in t.expenses : Between(e.expenseDate, startOfYear, endOfYear)}
        salesMonths == {MonthOf(b.billDate) : b \in salesRows}
        expsMonths == {MonthOf(e.expenseDate) : e \in expsRows}
        joined == Ascending(salesMonths \cap expsMonths)
    IN  [i \in DOMAIN joined |->
           LET month == joined[i]
               sales == {b \in salesRows : MonthOf(b.billDate) = month}
               exps == {e \in expsRows : MonthOf(e.expenseDate) = month}
           IN  [date |-> month,
                profit |-> TotalProfit(sales) - TotalExpense(exps),
                revenue |-> TotalAmount(sales)]]

\* The rows of the chart query: sales and exps grouped by month over the
\* target year, joined by FULL OUTER JOIN on the month.
ChartRows(t, startOfYear, endOfYear) ==
    LET salesRows == {b \in t.sellBills : Between(b.billDate, startOfYear, endOfYear)}
        expsRows == {e \in t.expenses : Between(e.expenseDate, startOfYear, endOfYear)}
        salesMonths == {MonthOf(b.billDate) : b \in salesRows}
        expsMonths == {MonthOf(e.expenseDate) : e \in expsRows}
        joined == Ascending(salesMonths \cup expsMonths)
    IN  [i \in DOMAIN joined |->
           LET month == joined[i]
               sales == {b \in salesRows : MonthOf(b.billDate) = month}
               exps == {e \in expsRows : MonthOf(e.expenseDate) = month}
           IN  [date |-> month,
                profit |-> TotalProfit(sales) - TotalExpense(exps),
                revenue |-> TotalAmount(sales)]]

DashboardStats(t, req, now, zoneAhead) ==
    LET targetYear == TargetYear(req, now)
        startOfMonth == StartOfMonth(now, zoneAhead)
        startOfYear == <<targetYear, 1, 1>>
        endOfYear == <<targetYear, 12, 31>>
        monthlySales == {b \in t.sellBills : DateLE(startOfMonth, b.billDate)}
        yearlySales == {b \in t.sellBills : Between(b.billDate, startOfYear, endOfYear)}
        mExpense == TotalExpense({e \in t.expenses : DateLE(startOfMonth, e.expenseDate)})
        yExpense == TotalExpense({e \in t.expenses :
                                    Between(e.expenseDate, startOfYear, endOfYear)})
    IN  [currentMonthProfit |-> TotalProfit(monthlySales) - mExpense,
         totalYearlyProfit |-> TotalProfit(yearlySales) - yExpense,
         currentMonthRevenue |-> TotalAmount(monthlySales),
         totalYearlyRevenue |-> TotalAmount(yearlySales),
         currentMonthExpense |-> mExpense,
         totalInventoryValue |->
             SumOver(t.products,
                     [p \in t.products |-> p.quantity * p.averageBuyPrice]),
         monthlyData |-> ChartRows(t, startOfYear, endOfYear)]

GetDashboardStats(req, now, zoneAhead) ==
    /\ tx = NoTx
    /\ response' = [op |-> "getDashboardStats", status |-> 200,
                    targetYear |-> TargetYear(req, now), now |-> now,
                    stats |-> DashboardStats(db, req, now, zoneAhead)]
    /\ hist' = NoHist
    /\ UNCHANGED <<db, seq, tx>>

----------------------------------------------------------------------------
(* Failures of the database *)

\* Any statement of an open transaction can fail in the database (a lost
\* connection, a value the column rejects); the handler's catch answers 400.
StatementFails ==
    /\ tx # NoTx
    /\ Fail(tx.op, [kind |-> "database"])
    /\ UNCHANGED seq

Next ==
    \/ \E body \in MalformedPurchaseBodies : CreateBuyBillInvalid(body)
    \/ \E body \in MalformedSellBodies : CreateSellBillInvalid(body)
    \/ \E req \in CreateBuyBillRequests :
         seq.buyBills <= MaxBuyBills /\ BeginCreateBuyBill(req)
    \/ BuyLine
    \/ CommitCreateBuyBill
    \/ \E req \in CreateSellBillRequests :
         seq.sellBills <= MaxSellBills /\ BeginCreateSellBill(req)
    \/ SellLine
    \/ SellLineNotFound
    \/ SellLineInsufficient
    \/ CommitCreateSellBill
    \/ \E id \in 1..MaxBuyBills : BeginDeleteBuyBill(id)
    \/ DeleteBuyLine
    \/ DeleteBuyLineRefused
    \/ CommitDeleteBuyBill
    \/ \E id \in 1..MaxSellBills : BeginDeleteSellBill(id)
    \/ DeleteSellLine
    \/ CommitDeleteSellBill
    \/ StatementFails
    \/ \E uniqueId \in LookupIds : GetProduct(uniqueId)

\* Purchases, sales, deletions and database failures, one request at a time.
Spec == Init /\ [][Next]_vars

NextLedger ==
    \/ \E req \in LedgerBuyRequests :
         seq.buyBills <= MaxBuyBills /\ BeginCreateBuyBill(req)
    \/ BuyLine
    \/ CommitCreateBuyBill
    \/ \E req \in LedgerSellRequests :
         seq.sellBills <= MaxLedgerSellBills /\ BeginCreateSellBill(req)
    \/ SellLine
    \/ CommitCreateSellBill
    \/ \E id \in 1..MaxBuyBills : BeginDeleteBuyBill(id)
    \/ DeleteBuyLine
    \/ DeleteBuyLineRefused
    \/ CommitDeleteBuyBill
    \/ \E id \in 1..MaxLedgerSellBills : BeginDeleteSellBill(id)
    \/ DeleteSellLine
    \/ CommitDeleteSellBill
    \/ \E req \in CreateExpenseRequests :
         seq.expenses <= MaxExpenses /\ CreateExpense(req)
    \/ \E id \in 1..MaxExpenses : DeleteExpense(id)
    \/ \E req \in DashboardRequests, now \in Nows, zoneAhead \in BOOLEAN :
         GetDashboardStats(req, now, zoneAhead)

\* Purchases and sales on several dates, their deletions, expenses and the
\* dashboard that reads them.
SpecLedger == Init /\ [][NextLedger]_vars

NextSales ==
    \/ \E req \in LedgerBuyRequests :
         seq.buyBills <= MaxBuyBills /\ BeginCreateBuyBill(req)
    \/ BuyLine
    \/ CommitCreateBuyBill
    \/ \E req \in TaxedSellRequests :
         seq.sellBills <= MaxLedgerSellBills /\ BeginCreateSellBill(req)
    \/ SellLine
    \/ SellLineInsufficient
    \/ CommitCreateSellBill

\* Purchases of one product and sales of it with and without tax.
SpecSales == Init /\ [][NextSales]_vars

----------------------------------------------------------------------------
(* Two requests at a time *)

\* Each request runs its own db.transaction (storage.ts:69, 140), opened with
\* no isolation level, which leaves PostgreSQL's default, READ COMMITTED: a
\* statement sees the rows committed before it and the writes of its own
\* transaction; an UPDATE of a row that another open transaction wrote, and
\* an INSERT of a unique key that another open transaction inserted, wait for
\* that transaction to end.  While two requests run, tx holds both
\* transactions: tx.s[k] is the k-th, with the rows it wrote in products
\* and lines, pc the statement it is at, product the row its select returned.

Sessions == {1, 2}

Other(k) == 3 - k

Idle == [state |-> "idle"]

ConcurrentSellRequests ==
    [billDate : SellDates,
     items : SeqsUpTo([uniqueId : {IdA}, sellingPrice : WholeCentSellPrices,
                       quantity : SellQuantities], 1)]

\* The products a statement of the session sees.
Visible(s) ==
    {p \in db.products : \A w \in s.products : w.id # p.id} \cup s.products

\* The other transaction is open and has written the product row.
Locked(o, id) == o.state = "open" /\ \E w \in o.products : w.id = id

\* The other transaction is open and has inserted a product of the identifier.
Inserting(o, uniqueId) ==
    /\ o.state = "open"
    /\ \E w \in o.products :
          /\ w.uniqueId = uniqueId
          /\ \A p \in db.products : p.id # w.id

OpenSession(op, req, bill) ==
    [state |-> "open", op |-> op, items |-> req.items, i |-> 1,
     pc |-> "select", bill |-> bill, product |-> <<>>,
     billTotalProfit |-> 0, billTotalAmount |-> 0,
     products |-> {}, lines |-> {}]

\* The first request opens its transaction while no other runs; the second
\* while the first is open.
BeginSession(k, s) ==
    /\ IF k = 1
       THEN /\ tx = NoTx
            /\ tx' = [op |-> "concurrent", s |-> <<s, Idle>>, before |-> db]
       ELSE /\ tx.op = "concurrent"
            /\ tx.s[2] = Idle
            /\ tx' = [tx EXCEPT !.s[2] = s]
    /\ response' = NoResponse
    /\ hist' = NoHist
    /\ UNCHANGED db

\* tx.insert(buyBills).values(...).returning()
ConcurrentBeginBuy(k, req) ==
    /\ CreatePurchaseInput(req)
    /\ BeginSession(k, OpenSession("createBuyBill", req,
           [id |-> seq.buyBills, billDate |-> req.billDate,
            totalAmount |-> BuyTotalAmount(req.items), createdAt |-> Now]))
    /\ seq' = [seq EXCEPT !.buyBills = @ + 1]

\* tx.insert(sellBills).values(...).returning()
ConcurrentBeginSell(k, req) ==
    /\ CreateSellInput(req)
    /\ BeginSession(k, OpenSession("createSellBill", req,
           [id |-> seq.sellBills, billDate |-> req.billDate,
            gstPercentage |-> GstPercentageOf(req), gstAmount |-> 0,
            totalProfit |-> 0, totalAmount |-> 0, createdAt |-> Now]))
    /\ seq' = [seq EXCEPT !.sellBills = @ + 1]

\* The transaction of session k ends: the request is answered, and the run
\* of two is over when the other transaction is not open.
EndSession(k, outcome, resp) ==
    LET done == [state |-> "done", op |-> tx.s[k].op, outcome |-> outcome,
                 id |-> tx.s[k].bill.id, items |-> tx.s[k].items]
        s == [tx.s EXCEPT ![k] = done]
    IN  /\ IF s[Other(k)].state = "open"
           THEN tx' = [tx EXCEPT !.s = s] /\ hist' = hist
           ELSE /\ tx' = NoTx
                /\ hist' = [op |-> "concurrent", before |-> tx.before,
                            both |-> s[Other(k)].state = "done", done |-> s]
        /\ response' = resp

\* The callback throws: the transaction rolls back and the handler answers 400.
ConcurrentFail(k, message) ==
    /\ EndSession(k, "failed", ErrorResponse(tx.s[k].op, message))
    /\ UNCHANGED <<db, seq>>

At(k, op, pc) ==
    /\ tx.op = "concurrent"
    /\ tx.s[k].state = "open"
    /\ tx.s[k].op = op
    /\ tx.s[k].i <= Len(tx.s[k].items)
    /\ tx.s[k].pc = pc

\* tx.select().from(products).where(eq(products.uniqueId, uniqueId))
ConcurrentBuySelect(k) ==
    /\ At(k, "createBuyBill", "select")
    /\ LET s == tx.s[k]
           found == {p \in Visible(s) : p.uniqueId = UniqueIdOf(s.items[s.i])}
       IN  \E product \in IF found = {} THEN {<<>>} ELSE {<<p>> : p \in found} :
               tx' = [tx EXCEPT !.s[k].product = product, !.s[k].pc = "write"]
    /\ UNCHANGED <<db, seq, response, hist>>

\* The insert of the product when the select found none, the update of the
\* product and the insert of the line.
ConcurrentBuyWrite(k) ==
    /\ At(k, "createBuyBill", "write")
    /\ LET s == tx.s[k]
           o == tx.s[Other(k)]
           item == s.items[s.i]
           uniqueId == UniqueIdOf(item)
           isNew == s.product = <<>>
           created == [id |-> seq.products, name |-> item.name,
                       company |-> item.company, productId |-> item.productId,
                       uniqueId |-> uniqueId, quantity |-> 0,
                       averageBuyPrice |-> 0]
           product == IF isNew THEN created ELSE s.product[1]
           totalQty == product.quantity + item.quantity
           line == [id |-> seq.buyBillItems, billId |-> s.bill.id,
                    productRef |-> product.id, uniqueId |-> uniqueId,
                    buyPrice |-> item.buyPrice, quantity |-> item.quantity,
                    totalCost |-> item.buyPrice * item.quantity]
       IN  /\ IF isNew
              THEN /\ ~Inserting(o, uniqueId)
                   /\ \A p \in db.products : p.uniqueId # uniqueId
              ELSE ~Locked(o, product.id)
           /\ \E newAvg \in NewAverage(product.averageBuyPrice, product.quantity,
                                        item.buyPrice, item.quantity) :
                LET row == [product EXCEPT !.quantity = totalQty,
                                           !.averageBuyPrice = newAvg]
                IN  tx' = [tx EXCEPT
                      !.s[k].products = {w \in @ : w.id # row.id} \cup {row},
                      !.s[k].lines = @ \cup {line},
                      !.s[k].i = @ + 1,
                      !.s[k].pc = "select"]
           /\ seq' = [seq EXCEPT !.products = IF isNew THEN @ + 1 ELSE @,
                                 !.buyBillItems = @ + 1]
    /\ UNCHANGED <<db, response, hist>>

\* The insert of a product whose identifier another transaction committed
\* after the select: the unique constraint of products.uniqueId refuses it.
ConcurrentBuyDuplicate(k) ==
    /\ At(k, "createBuyBill", "write")
    /\ LET s == tx.s[k]
           uniqueId == UniqueIdOf(s.items[s.i])
       IN  /\ s.product = <<>>
           /\ ~Inserting(tx.s[Other(k)], uniqueId)
           /\ \E p \in db.products : p.uniqueId = uniqueId
    /\ ConcurrentFail(k, [kind |-> "database"])

ConcurrentBuyCommit(k) ==
    /\ tx.op = "concurrent"
    /\ tx.s[k].state = "open"
    /\ tx.s[k].op = "createBuyBill"
    /\ tx.s[k].i > Len(tx.s[k].items)
    /\ db' = [db EXCEPT !.products = Visible(tx.s[k]),
                        !.buyBills = @ \cup {tx.s[k].bill},
                        !.buyBillItems = @ \cup tx.s[k].lines]
    /\ EndSession(k, "committed",
                  [op |-> "createBuyBill", status |-> 201, bill |-> tx.s[k].bill])
    /\ UNCHANGED seq

\* tx.select().from(products).where(eq(products.uniqueId, item.uniqueId)) and
\* the two tests of its result that pass.
ConcurrentSellSelect(k) ==
    /\ At(k, "createSellBill", "select")
    /\ LET s == tx.s[k]
           item == s.items[s.i]
       IN  \E product \in {p \in Visible(s) : p.uniqueId = item.uniqueId} :
               /\ ~InsufficientStock(product, item)
               /\ tx' = [tx EXCEPT !.s[k].product = <<product>>,
                                   !.s[k].pc = "write"]
    /\ UNCHANGED <<db, seq, response, hist>>

ConcurrentSellNotFound(k) ==
    /\ At(k, "createSellBill", "select")
    /\ LET s == tx.s[k]
           item == s.items[s.i]
       IN  /\ \A p \in Visible(s) : p.uniqueId # item.uniqueId
           /\ ConcurrentFail(k, [kind |-> "notFound", uniqueId |-> item.uniqueId])

ConcurrentSellInsufficient(k) ==
    /\ At(k, "createSellBill", "select")
    /\ LET s == tx.s[k]
           item == s.items[s.i]
       IN  \E product \in {p \in Visible(s) : p.uniqueId = item.uniqueId} :
               /\ InsufficientStock(product, item)
               /\ ConcurrentFail(k, InsufficientStockMessage(product))

\* The update of the quantity, computed from the row the select returned,
\* and the insert of the line.
ConcurrentSellWrite(k) ==
    /\ At(k, "createSellBill", "write")
    /\ LET s == tx.s[k]
           item == s.items[s.i]
           product == s.product[1]
           current == CHOOSE p \in Visible(s) : p.id = product.id
           row == [current EXCEPT !.quantity = product.quantity - item.quantity]
           profitPerUnit == item.sellingPrice - 10 * product.averageBuyPrice
           totalItemProfit == profitPerUnit * item.quantity
           totalItemAmount == item.sellingPrice * item.quantity
       IN  /\ ~Locked(tx.s[Other(k)], product.id)
           /\ \E sellingPrice \in ToFixed2(item.sellingPrice, 10),
                 perUnit \in ToFixed2(profitPerUnit, 10),
                 total \in ToFixed2(totalItemProfit, 10) :
                LET line == [id |-> seq.sellBillItems, billId |-> s.bill.id,
                             productRef |-> product.id,
                             uniqueId |-> product.uniqueId,
                             sellingPrice |-> sellingPrice,
                             quantity |-> item.quantity,
                             profitPerUnit |-> perUnit,
                             totalProfit |-> total]
                IN  tx' = [tx EXCEPT
                      !.s[k].products = {w \in @ : w.id # row.id} \cup {row},
                      !.s[k].lines = @ \cup {line},
                      !.s[k].billTotalProfit = @ + totalItemProfit,
                      !.s[k].billTotalAmount = @ + totalItemAmount,
                      !.s[k].i = @ + 1,
                      !.s[k].pc = "select"]
    /\ seq' = [seq EXCEPT !.sellBillItems = @ + 1]
    /\ UNCHANGED <<db, response, hist>>

\* The update of the bill's totals and the commit.
ConcurrentSellCommit(k) ==
    /\ tx.op = "concurrent"
    /\ tx.s[k].state = "open"
    /\ tx.s[k].op = "createSellBill"
    /\ tx.s[k].i > Len(tx.s[k].items)
    /\ \E totalProfit \in ToFixed2(tx.s[k].billTotalProfit, 10),
          totalAmount \in ToFixed2(tx.s[k].billTotalAmount, 10),
          gstAmount \in GstAmount(tx.s[k].billTotalAmount,
                                  tx.s[k].bill.gstPercentage) :
         LET updatedBill == [tx.s[k].bill EXCEPT !.totalProfit = totalProfit,
                                                 !.totalAmount = totalAmount,
                                                 !.gstAmount = gstAmount]
         IN  /\ db' = [db EXCEPT !.products = Visible(tx.s[k]),
                                 !.sellBills = @ \cup {updatedBill},
                                 !.sellBillItems = @ \cup tx.s[k].lines]
             /\ EndSession(k, "committed",
                           [op |-> "createSellBill", status |-> 201,
                            bill |-> updatedBill])
    /\ UNCHANGED seq

NextConcurrent ==
    \/ \E k \in Sessions, req \in LedgerBuyRequests :
         seq.buyBills <= MaxBuyBills /\ ConcurrentBeginBuy(k, req)
    \/ \E k \in Sessions, req \in ConcurrentSellRequests :
         seq.sellBills <= MaxLedgerSellBills /\ ConcurrentBeginSell(k, req)
    \/ \E k \in Sessions : ConcurrentBuySelect(k)
    \/ \E k \in Sessions : ConcurrentBuyWrite(k)
    \/ \E k \in Sessions : ConcurrentBuyDuplicate(k)
    \/ \E k \in Sessions : ConcurrentBuyCommit(k)
    \/ \E k \in Sessions : ConcurrentSellSelect(k)
    \/ \E k \in Sessions : ConcurrentSellNotFound(k)
    \/ \E k \in Sessions : ConcurrentSellInsufficient(k)
    \/ \E k \in Sessions : ConcurrentSellWrite(k)
    \/ \E k \in Sessions : ConcurrentSellCommit(k)

\* Purchases and sales of one product, up to two of them at a time.
SpecConcurrent == Init /\ [][NextConcurrent]_vars

----------------------------------------------------------------------------
(* The line a transaction applied last *)

BuyLineApplied == tx.op = "createBuyBill" /\ tx.i > 1

SellLineApplied == tx.op = "createSellBill" /\ tx.i > 1

LastLine == tx.items[tx.i - 1]

\* The product of the purchase line applied last, before the line and after.
LineProductBefore ==
    LET found == ProductsByUniqueId(tx.prev, UniqueIdOf(LastLine))
    IN  IF found = {}
        THEN [quantity |-> 0, averageBuyPrice |-> 0, seen |-> FALSE]
        ELSE LET p == CHOOSE p \in found : TRUE
             IN  [quantity |-> p.quantity, averageBuyPrice |-> p.averageBuyPrice,
                  seen |-> TRUE]

LineProductAfter ==
    CHOOSE p \in ProductsByUniqueId(tx.t, UniqueIdOf(LastLine)) : TRUE

\* The units the lines of a bill hold of a product.
BoughtOn(t, billId, productId) ==
    LET lines == {it \in t.buyBillItems :
                    it.billId = billId /\ it.productRef = productId}
    IN  SumOver(lines, [it \in lines |-> it.quantity])

SoldOn(t, billId, productId) ==
    LET lines == {it \in t.sellBillItems :
                    it.billId = billId /\ it.productRef = productId}
    IN  SumOver(lines, [it \in lines |-> it.quantity])

Committed(op) == hist.op = op /\ hist.outcome = "committed"

Failed(op) == hist.op = op /\ hist.outcome = "failed"

----------------------------------------------------------------------------
(* Purchases *)

\* C1 as the specification states it: after a purchase line of n units at
\* price p on a product holding q units at average a (q + n > 0), the product
\* holds q + n units and its average is exactly (a*q + p*n) / (q + n).
C1_ExactWeightedAverage ==
    BuyLineApplied =>
        LET q == LineProductBefore.quantity
            a == LineProductBefore.averageBuyPrice
            n == LastLine.quantity
        IN  q + n > 0 =>
              /\ LineProductAfter.quantity = q + n
              /\ LineProductAfter.averageBuyPrice * (q + n)
                   = a * q + LastLine.buyPrice * n

\* C1, amended: after such a purchase line the product holds q + n units and
\* its average is (a*q + p*n) / (q + n) rounded to the nearest hundredth (at
\* most half a hundredth away from it); for a product first seen in the bill
\* the average is the line's price.
C1_RoundedWeightedAverage ==
    BuyLineApplied =>
        LET q == LineProductBefore.quantity
            a == LineProductBefore.averageBuyPrice
            n == LastLine.quantity
        IN  q + n > 0 =>
              /\ LineProductAfter.quantity = q + n
              /\ 2 * Abs(LineProductAfter.averageBuyPrice * (q + n)
                         - (a * q + LastLine.buyPrice * n)) <= q + n
              /\ ~LineProductBefore.seen =>
                   LineProductAfter.averageBuyPrice = LastLine.buyPrice

\* A committed purchase raised the stock of a product that had stock, and the
\* product's average is now neither price.
C1_Witness ==
    /\ Committed("createBuyBill")
    /\ response.status = 201
    /\ \E p \in db.products, b \in hist.before.products :
         /\ b.id = p.id
         /\ b.quantity > 0
         /\ p.quantity > b.quantity
         /\ p.averageBuyPrice \notin BuyPrices

\* C2: in every committed state the quantity of every product is at least 0.
C2_QuantityNeverNegative == \A p \in db.products : p.quantity >= 0

----------------------------------------------------------------------------
(* Sales *)

\* C3: no sale line is applied that asks for more than its product held when
\* the line was processed, and a committed sale bill took from no product
\* more than the product held before the request.
C3_OversellRejected ==
    /\ SellLineApplied =>
         \A p \in ProductsByUniqueId(tx.prev, LastLine.uniqueId) :
             LastLine.quantity <= p.quantity
    /\ Committed("createSellBill") =>
         \A it \in db.sellBillItems :
             it.billId = hist.id =>
                 \A p \in ProductsById(hist.before, it.productRef) :
                     SoldOn(db, hist.id, p.id) <= p.quantity

\* A sale was refused for a product that had stock, but less than asked.
C3_Witness ==
    /\ response.op = "createSellBill"
    /\ response.status = 400
    /\ response.message.kind = "insufficient"
    /\ response.message.available >= 1
    /\ db.sellBills = {}

\* C7: after a failed create-sale request the committed tables are as before
\* the request, and hold no header and no line of it.
C7_SaleAllOrNothing ==
    Failed("createSellBill") =>
        /\ db = hist.before
        /\ hist.at # NoTx =>
              /\ \A b \in db.sellBills : b.id # hist.at.bill.id
              /\ \A it \in db.sellBillItems : it.billId # hist.at.bill.id

\* A sale has inserted its header and applied its first line, and its second
\* line names an unknown product or asks for more than the stock.
C7_Witness ==
    /\ tx.op = "createSellBill"
    /\ tx.i = 2
    /\ tx.i <= Len(tx.items)
    /\ tx.bill \in tx.t.sellBills
    /\ tx.t.products # db.products
    /\ \A p \in ProductsByUniqueId(tx.t, tx.items[tx.i].uniqueId) :
           tx.items[tx.i].quantity > p.quantity

\* C8: after a failed create-purchase request the committed tables are as
\* before the request: no header, no line, no new product and no change of
\* quantity or average cost remains.
C8_PurchaseAllOrNothing ==
    Failed("createBuyBill") =>
        /\ db = hist.before
        /\ hist.at # NoTx =>
              /\ \A b \in db.buyBills : b.id # hist.at.bill.id
              /\ \A it \in db.buyBillItems : it.billId # hist.at.bill.id

\* The first purchase ever failed after it had inserted a product and a line:
\* their ids were drawn, and no product is there.
C8_Witness ==
    /\ Failed("createBuyBill")
    /\ hist.at # NoTx
    /\ response.status = 400
    /\ seq.buyBills = 2
    /\ seq.products > 1
    /\ seq.buyBillItems > 1
    /\ db.products = {}

----------------------------------------------------------------------------
(* Deletions *)

\* C4: a purchase bill created and then deleted, nothing in between, leaves
\* every product that existed before the purchase with the quantity and the
\* average cost it had.
C4_PurchaseRoundTrip ==
    (Committed("deleteBuyBill") /\ hist.origin.known) =>
        \A b \in hist.origin.products :
            \E p \in db.products :
                /\ p.id = b.id
                /\ p.quantity = b.quantity
                /\ p.averageBuyPrice = b.averageBuyPrice

\* C5: a purchase-bill deletion applies no line that would leave its product
\* with a negative quantity, it commits only with every line of the bill taken
\* off the stock, and after a refused deletion the committed tables (the
\* bill, its lines, every product) are as before the request.
C5_RefusedDeleteChangesNothing ==
    /\ (tx.op = "deleteBuyBill" /\ tx.last # <<>>) =>
         \A p \in ProductsById(tx.prev, tx.last[1].productRef) :
             p.quantity - tx.last[1].quantity >= 0
    /\ Committed("deleteBuyBill") =>
         \A b \in hist.before.products :
             \E p \in db.products :
                 /\ p.id = b.id
                 /\ p.quantity = b.quantity - BoughtOn(hist.before, hist.id, b.id)
    /\ Failed("deleteBuyBill") => db = hist.before

\* A deletion has applied a line and now meets a line that would leave its
\* product with a negative quantity.
C5_Witness ==
    /\ tx.op = "deleteBuyBill"
    /\ tx.last # <<>>
    /\ tx.t.products # db.products
    /\ \E item \in tx.remaining :
           \E p \in ProductsById(tx.t, item.productRef) :
               p.quantity - item.quantity < 0

\* C6: a committed deletion of a sale bill raises the quantity of every
\* product by the sum of the bill's line quantities for it and removes the
\* bill and its lines; when the deletion follows the bill's creation with
\* nothing in between, every product has the quantity it had before the sale.
C6_DeleteSaleRestoresStock ==
    Committed("deleteSellBill") =>
        /\ \A b \in hist.before.products :
               \E p \in db.products :
                   /\ p.id = b.id
                   /\ p.quantity = b.quantity + SoldOn(hist.before, hist.id, b.id)
        /\ \A b \in db.sellBills : b.id # hist.id
        /\ \A it \in db.sellBillItems : it.billId # hist.id
        /\ hist.origin.known =>
               \A b \in hist.origin.products :
                   \E p \in db.products :
                       p.id = b.id /\ p.quantity = b.quantity

\* A sale bill that had taken stock was deleted right after its creation.
C6_Witness ==
    /\ Committed("deleteSellBill")
    /\ hist.origin.known
    /\ response.status = 200
    /\ \E p \in db.products : SoldOn(hist.before, hist.id, p.id) > 0

----------------------------------------------------------------------------
(* Dashboard *)

\* The sale bills and the expenses dated in a month.
SalesIn(month) == {b \in db.sellBills : MonthOf(b.billDate) = month}

ExpensesIn(month) == {e \in db.expenses : MonthOf(e.expenseDate) = month}

\* C9: every monthlyData entry is a month of the selected year whose profit
\* is the sum of totalProfit of the sale bills dated in the month minus the sum
\* of the expenses dated in it, and a month of that year with expenses and no
\* sale has an entry, with revenue 0 and profit minus its expenses.
C9_MonthlyProfit ==
    response.op = "getDashboardStats" =>
        LET data == response.stats.monthlyData
        IN  /\ \A i \in DOMAIN data :
                   /\ data[i].date[1] = response.targetYear
                   /\ data[i].profit =
                        SumOver(SalesIn(data[i].date),
                                [b \in SalesIn(data[i].date) |-> b.totalProfit])
                        - SumOver(ExpensesIn(data[i].date),
                                  [e \in ExpensesIn(data[i].date) |-> e.amount])
            /\ \A e \in db.expenses :
                   ( /\ e.expenseDate[1] = response.targetYear
                     /\ SalesIn(MonthOf(e.expenseDate)) = {} ) =>
                       \E i \in DOMAIN data :
                           /\ data[i].date = MonthOf(e.expenseDate)
                           /\ data[i].revenue = 0
                           /\ data[i].profit =
                                -SumOver(ExpensesIn(data[i].date),
                                    [x \in ExpensesIn(data[i].date) |-> x.amount])

\* The dashboard shows a month with expenses and no sale beside a month with
\* both.
C9_Witness ==
    /\ response.op = "getDashboardStats"
    /\ LET data == response.stats.monthlyData
       IN  /\ \E i \in DOMAIN data : data[i].revenue = 0 /\ data[i].profit < 0
           /\ \E i \in DOMAIN data :
                  /\ SalesIn(data[i].date) # {}
                  /\ ExpensesIn(data[i].date) # {}

\* C10: currentMonthProfit is the sum of the profits of the sale bills dated
\* in the current calendar month minus the sum of the expenses dated in it.
C10_CurrentMonthOnly ==
    response.op = "getDashboardStats" =>
        LET month == MonthOf(response.now)
        IN  response.stats.currentMonthProfit =
                SumOver(SalesIn(month), [b \in SalesIn(month) |-> b.totalProfit])
                - SumOver(ExpensesIn(month),
                          [e \in ExpensesIn(month) |-> e.amount])

----------------------------------------------------------------------------
(* Errors *)

\* The sale line a create-sale request failed at, and the product it named.
FailedLine == hist.at.items[hist.at.i]

FailedLineProducts == ProductsByUniqueId(hist.at.t, FailedLine.uniqueId)

RefusedForStock ==
    /\ response.op = "createSellBill"
    /\ response.status = 400
    /\ response.message.kind = "insufficient"

\* C11 as the specification states it: the message of a sale refused for
\* insufficient stock names the product and states the shortfall, the
\* requested quantity minus the quantity on hand.
C11_MessageStatesShortfall ==
    RefusedForStock =>
        \A p \in FailedLineProducts :
            /\ response.message.name = p.name
            /\ response.message.available = FailedLine.quantity - p.quantity

\* C11, amended: the message of a sale refused for insufficient stock names
\* the product and states the quantity on hand, which is less than the
\* quantity the line asked for.
C11_MessageStatesAvailable ==
    RefusedForStock =>
        /\ FailedLineProducts # {}
        /\ \A p \in FailedLineProducts :
               /\ response.message.name = p.name
               /\ response.message.available = p.quantity
               /\ p.quantity < FailedLine.quantity

\* A sale was refused for a product in stock, and the shortfall is not the
\* quantity on hand.
C11_Witness ==
    /\ RefusedForStock
    /\ response.message.name = <<"A">>
    /\ response.message.available >= 0
    /\ FailedLine.quantity - response.message.available
         # response.message.available

BillOps == {"createBuyBill", "createSellBill", "deleteBuyBill", "deleteSellBill"}

\* The failed request was refused by the schema or by a business rule.
Rejected ==
    /\ hist.op \in BillOps
    /\ hist.outcome = "failed"
    /\ \/ hist.at = NoTx
       \/ /\ hist.op = "createSellBill"
          /\ hist.at.i <= Len(hist.at.items)
          /\ \E p \in FailedLineProducts : p.quantity < FailedLine.quantity
          /\ response.message.kind # "database"
       \/ /\ hist.op = "deleteBuyBill"
          /\ \E item \in hist.at.remaining :
                \E p \in ProductsById(hist.at.t, item.productRef) :
                    p.quantity - item.quantity < 0
          /\ response.message.kind # "database"

\* C12: a request refused for a malformed body, for insufficient stock on a
\* sale or for negative stock on a purchase deletion is answered 400 with a
\* message, and a bill request is answered 200 or 201 only when it committed.
C12_RejectedIs400 ==
    /\ Rejected =>
         /\ response.op = hist.op
         /\ response.status = 400
         /\ "message" \in DOMAIN response
         /\ response.message.kind \in {"validation", "insufficient", "negativeStock"}
         /\ db = hist.before
    /\ (response.op \in BillOps /\ response.status \in {200, 201}) =>
         Committed(response.op)

\* A purchase deletion was refused because a product would have gone negative.
C12_Witness ==
    /\ Rejected
    /\ hist.op = "deleteBuyBill"
    /\ response.status = 400
    /\ response.message.kind = "negativeStock"
    /\ db.buyBills # {}

\* C13: a bill request that failed in the database, neither refused by the
\* schema nor by a business rule, is answered with a 5xx status.
C13_DatabaseFailureIs500 ==
    ( /\ response.op \in BillOps
      /\ "message" \in DOMAIN response
      /\ response.message.kind = "database" ) => response.status >= 500

\* C14: a lookup by unique identifier answers 404 exactly when no product
\* has that identifier, and otherwise 200 with the product that has it.
C14_LookupNotFound ==
    response.op = "getProduct" =>
        /\ response.status \in {200, 404}
        /\ response.status = 404 <=>
              ~ \E p \in db.products : p.uniqueId = response.uniqueId
        /\ response.status = 200 =>
              /\ response.product \in db.products
              /\ response.product.uniqueId = response.uniqueId

\* A lookup of "A" answered 404 while the product "a" exists.
C14_Witness ==
    /\ response.op = "getProduct"
    /\ response.status = 404
    /\ response.uniqueId = <<"A">>
    /\ \E p \in db.products : p.uniqueId = <<"a">>

----------------------------------------------------------------------------
(* Profit of a sale *)

\* The lines a committed create-sale request recorded.
RecordedSellLines == {it \in db.sellBillItems : it.billId = hist.id}

\* C15: for every line of a committed sale the recorded per-unit profit is
\* the recorded selling price minus the average cost the product had when
\* the line was processed, the line's total profit is the per-unit profit
\* times the line's quantity, and the bill's totalProfit is the sum of the
\* total profits of its lines.
C15_ProfitOfSale ==
    Committed("createSellBill") =>
        /\ \A it \in RecordedSellLines :
               /\ \A p \in ProductsById(hist.before, it.productRef) :
                      it.profitPerUnit = it.sellingPrice - p.averageBuyPrice
               /\ it.totalProfit = it.profitPerUnit * it.quantity
        /\ \A b \in db.sellBills :
               b.id = hist.id =>
                   b.totalProfit =
                       SumOver(RecordedSellLines,
                               [it \in RecordedSellLines |-> it.totalProfit])

----------------------------------------------------------------------------
(* Products *)

OneProductPerUniqueId(t) ==
    \A p, q \in t.products : p.uniqueId = q.uniqueId => p.id = q.id

\* C16: the committed tables, and the tables of a purchase in progress, hold
\* at most one product per unique identifier; a purchase line inserts a
\* product only when its identifier had none; and every committed purchase
\* line references an existing product, the one with the line's identifier.
C16_OneProductPerIdentifier ==
    /\ OneProductPerUniqueId(db)
    /\ tx.op = "createBuyBill" => OneProductPerUniqueId(tx.t)
    /\ BuyLineApplied =>
         ( ProductsByUniqueId(tx.prev, UniqueIdOf(LastLine)) # {}
             => tx.t.products = UpdateProduct(tx.prev, LineProductAfter.id,
                                    LineProductAfter.quantity,
                                    LineProductAfter.averageBuyPrice).products )
    /\ \A it \in db.buyBillItems :
           \E p \in db.products :
               p.id = it.productRef /\ p.uniqueId = it.uniqueId

\* A committed purchase bill holds two lines with the same identifier, one
\* derived from name and company, and the bill created the one product.
C16_Witness ==
    /\ Committed("createBuyBill")
    /\ \E a, b \in db.buyBillItems :
           /\ a.id # b.id
           /\ a.billId = hist.id /\ b.billId = hist.id
           /\ a.uniqueId = IdB /\ b.uniqueId = IdB
           /\ a.productRef = b.productRef
    /\ ProductsByUniqueId(hist.before, IdB) = {}
    /\ Cardinality(ProductsByUniqueId(db, IdB)) = 1

\* The request that finished last changed the committed tables, if any
\* request did: hist.before holds the tables before it.
Finished == hist.op \notin {"none", "undoing"}

\* C17: every product that existed before a request exists after it, with
\* its id and its identifier, whatever the request: a create or a delete of a
\* purchase bill, of a sale bill or of an expense, committed or failed; and a
\* transaction in progress holds every committed product.
C17_ProductsNeverRemoved ==
    /\ Finished =>
         \A b \in hist.before.products :
             \E p \in db.products : p.id = b.id /\ p.uniqueId = b.uniqueId
    /\ tx # NoTx =>
         \A b \in db.products :
             \E p \in tx.t.products : p.id = b.id /\ p.uniqueId = b.uniqueId

\* The purchase bill that created the only product was deleted right after
\* its creation, and the product is there, with no stock.
C17_Witness ==
    /\ Committed("deleteBuyBill")
    /\ hist.origin.known
    /\ hist.origin.products = {}
    /\ db.buyBills = {}
    /\ \E p \in db.products : p.quantity = 0

----------------------------------------------------------------------------
(* The bills on record, recorded again *)

RECURSIVE InOrder(_, _)
\* The rows of S as a sequence, ascending in key[row].
InOrder(S, key) ==
    IF S = {} THEN <<>>
    ELSE LET first == CHOOSE x \in S : \A y \in S : key[x] <= key[y]
         IN  <<first>> \o InOrder(S \ {first}, key)

ById(S) == InOrder(S, [row \in S |-> row.id])

ByCreatedAt(S) == InOrder(S, [row \in S |-> row.createdAt])

\* The bills of the tables t in the order of their creation, purchases and
\* sales together.
BillsInOrder(t) ==
    ByCreatedAt({[kind |-> "buy", id |-> b.id, createdAt |-> b.createdAt] :
                     b \in t.buyBills}
                \cup {[kind |-> "sell", id |-> b.id, createdAt |-> b.createdAt] :
                          b \in t.sellBills})

\* The stock by product: no unit, no average, as a product is created.
NoStock(t) ==
    {[id |-> p.id, quantity |-> 0, averageBuyPrice |-> 0] : p \in t.products}

StockOf(stock, id) == CHOOSE p \in stock : p.id = id

SetStock(stock, id, quantity, averageBuyPrice) ==
    {p \in stock : p.id # id}
    \cup {[id |-> id, quantity |-> quantity, averageBuyPrice |-> averageBuyPrice]}

RECURSIVE RecordBuyLines(_, _)
\* The stocks the purchase lines can leave, applied in order to the stock.
RecordBuyLines(stock, lines) ==
    IF lines = <<>> THEN {stock}
    ELSE LET l == Head(lines)
             cur == StockOf(stock, l.productRef)
         IN  UNION { RecordBuyLines(
                         SetStock(stock, l.productRef,
                                  cur.quantity + l.quantity, newAvg),
                         Tail(lines)) :
                     newAvg \in NewAverage(cur.averageBuyPrice, cur.quantity,
                                           l.buyPrice, l.quantity) }

RECURSIVE RecordSellLines(_, _)
\* The stock after the sale lines, and the profit they make on it, from the
\* recorded selling prices.
RecordSellLines(st, lines) ==
    IF lines = <<>> THEN st
    ELSE LET l == Head(lines)
             cur == StockOf(st.stock, l.productRef)
         IN  RecordSellLines(
                 [stock |-> SetStock(st.stock, l.productRef,
                                     cur.quantity - l.quantity,
                                     cur.averageBuyPrice),
                  profit |-> st.profit
                      + (l.sellingPrice - cur.averageBuyPrice) * l.quantity],
                 Tail(lines))

RECURSIVE Recorded(_, _, _, _)
\* The stock, and the totalProfit of every sale bill of t as rows of id and
\* totalProfit, had the bills been recorded in this order on this stock: the
\* set of outcomes the roundings allow.
Recorded(t, stock, profits, bills) ==
    IF bills = <<>> THEN {[stock |-> stock, profits |-> profits]}
    ELSE LET b == Head(bills)
         IN  IF b.kind = "buy"
             THEN UNION { Recorded(t, after, profits, Tail(bills)) :
                          after \in RecordBuyLines(stock,
                              ById({it \in t.buyBillItems : it.billId = b.id})) }
             ELSE LET st == RecordSellLines([stock |-> stock, profit |-> 0],
                              ById({it \in t.sellBillItems : it.billId = b.id}))
                  IN  Recorded(t, st.stock,
                               profits \cup {[id |-> b.id, totalProfit |-> st.profit]},
                               Tail(bills))

\* The outcomes of recording the bills of t, and nothing else, from the start.
RecordedAlone(t) == Recorded(t, NoStock(t), {}, BillsInOrder(t))

\* Every bill ever created is on record in t, but for missing purchase bills
\* and missingSales sale bills.
OnlyMissing(t, missingBuys, missingSales) ==
    /\ Cardinality(t.buyBills) + missingBuys = seq.buyBills - 1
    /\ Cardinality(t.sellBills) + missingSales = seq.sellBills - 1

\* The profit and revenue figures of the dashboard over the tables t, for
\* every year asked and every clock.
ProfitFigures(t) ==
    [r \in DashboardRequests \X Nows \X BOOLEAN |->
        LET stats == DashboardStats(t, r[1], r[2], r[3])
        IN  [currentMonthProfit |-> stats.currentMonthProfit,
             totalYearlyProfit |-> stats.totalYearlyProfit,
             currentMonthRevenue |-> stats.currentMonthRevenue,
             totalYearlyRevenue |-> stats.totalYearlyRevenue,
             monthlyData |-> stats.monthlyData]]

WithProfits(t, profits) ==
    [t EXCEPT !.sellBills =
        {[b EXCEPT !.totalProfit = (CHOOSE r \in profits : r.id = b.id).totalProfit] :
             b \in @}]

OneOfTwoPurchasesDeleted ==
    /\ Committed("deleteBuyBill")
    /\ \E b \in hist.before.buyBills : b.id = hist.id
    /\ Cardinality(db.buyBills) = 1
    /\ OnlyMissing(db, 1, 0)
    /\ db.sellBills = {}

\* The products both the deleted bill and the bill on record have lines of.
ProductsOfBoth ==
    {p \in db.products :
        /\ \E it \in hist.before.buyBillItems :
               it.billId = hist.id /\ it.productRef = p.id
        /\ \E it \in db.buyBillItems : it.productRef = p.id}

\* C19: two purchase bills B1 and B2 recorded, in either order, with no sale,
\* and B1 deleted: every product of both bills has the quantity and the
\* average cost that recording B2 alone gives it.
C19_DeleteLeavesOtherPurchase ==
    OneOfTwoPurchasesDeleted =>
        \E alone \in RecordedAlone(db) :
            \A p \in ProductsOfBoth :
                /\ p.quantity = StockOf(alone.stock, p.id).quantity
                /\ p.averageBuyPrice = StockOf(alone.stock, p.id).averageBuyPrice

----------------------------------------------------------------------------
(* Expenses *)

WithoutExpenses(t) == [t EXCEPT !.expenses = {}]

\* C20: a created or deleted expense leaves every product, every purchase
\* bill and every sale bill, with their lines, as they were; a bill request,
\* committed or failed, leaves every expense as it was, and so does a
\* transaction in progress.
C20_ExpensesIndependent ==
    /\ (Finished /\ hist.op \in {"createExpense", "deleteExpense"}) =>
         WithoutExpenses(db) = WithoutExpenses(hist.before)
    /\ (Finished /\ hist.op \in BillOps) => db.expenses = hist.before.expenses
    /\ tx # NoTx => tx.t.expenses = db.expenses

\* An expense was deleted while a product, a purchase bill and a sale bill
\* are on record.
C20_Witness ==
    /\ hist.op = "deleteExpense"
    /\ db.expenses # hist.before.expenses
    /\ db.products # {}
    /\ db.buyBills # {}
    /\ db.sellBills # {}

----------------------------------------------------------------------------
(* Tax of a sale *)

\* The header a committed create-sale request recorded, and the sum of
\* sellingPrice * quantity over its recorded lines.
RecordedSellBill == CHOOSE b \in db.sellBills : b.id = hist.id

RecordedLineAmount ==
    SumOver(RecordedSellLines,
            [it \in RecordedSellLines |-> it.sellingPrice * it.quantity])

----------------------------------------------------------------------------
(* Sign of the average cost *)

\* The purchase lines ever inserted, when all of them are on record or were
\* on record before the purchase deletion that finished last.
PurchaseLinesSoFar ==
    IF Committed("deleteBuyBill") THEN hist.before.buyBillItems
    ELSE db.buyBillItems

OnlyPositivePurchases ==
    /\ tx = NoTx
    /\ Cardinality(PurchaseLinesSoFar) = seq.buyBillItems - 1
    /\ \A it \in PurchaseLinesSoFar : it.quantity > 0 /\ it.buyPrice >= 0

\* C22: when every purchase line ever recorded had a positive quantity and a
\* non-negative price, the average cost of every product is at least 0, also
\* after the deletion of a purchase bill part of whose stock was sold.
C22_AverageNeverNegative ==
    OnlyPositivePurchases =>
        \A p \in db.products : p.averageBuyPrice >= 0

----------------------------------------------------------------------------
(* Conservation of stock *)

\* The units the purchase lines on record hold of a product, and the units
\* the sale lines on record hold of it.
Bought(t, productId) ==
    LET lines == {it \in t.buyBillItems : it.productRef = productId}
    IN  SumOver(lines, [it \in lines |-> it.quantity])

Sold(t, productId) ==
    LET lines == {it \in t.sellBillItems : it.productRef = productId}
    IN  SumOver(lines, [it \in lines |-> it.quantity])

\* C23: in the committed database, after any sequence of creations and
\* deletions of bills, the quantity of each product is the sum of the
\* quantities of the purchase lines on record for it less the sum of the
\* quantities of the sale lines on record for it.
C23_StockConserved ==
    \A p \in db.products :
        p.quantity = Bought(db, p.id) - Sold(db, p.id)

\* A sale bill has been deleted while purchase lines and stock remain.
C23_Witness ==
    /\ Committed("deleteSellBill")
    /\ hist.before.sellBillItems # db.sellBillItems
    /\ \E p \in db.products :
          /\ p.quantity > 0
          /\ Bought(db, p.id) > 0
          /\ \E q \in hist.before.products : q.id = p.id /\ q.quantity < p.quantity

----------------------------------------------------------------------------
(* Sales and the average cost *)

\* The products with their quantities left out.
BesidesQuantity(products) ==
    { [id |-> p.id, uniqueId |-> p.uniqueId, name |-> p.name,
       company |-> p.company, productId |-> p.productId,
       averageBuyPrice |-> p.averageBuyPrice] : p \in products }

\* C26: a committed creation of a sale bill and a committed deletion of a
\* sale bill leave every field of every product but its quantity as it was,
\* the average cost included, also when the sale leaves a quantity of 0.
C26_SalesKeepAverage ==
    (Committed("createSellBill") \/ Committed("deleteSellBill")) =>
        BesidesQuantity(db.products) = BesidesQuantity(hist.before.products)

\* A sale has brought a product with a positive average cost to quantity 0.
C26_Witness ==
    /\ Committed("createSellBill")
    /\ \E p \in db.products :
          /\ p.quantity = 0
          /\ p.averageBuyPrice > 0
          /\ \E q \in hist.before.products : q.id = p.id /\ q.quantity > 0

----------------------------------------------------------------------------
(* Several lines of one sale for one product *)

\* C27: a sale request is committed only when, for every product it has
\* lines for, the sum of the quantities of these lines is within the quantity
\* the product held when the request arrived: each line is tested against
\* the stock the lines before it left.
C27_LinesCheckedInTurn ==
    Committed("createSellBill") =>
        \A p \in hist.before.products :
            (\E it \in db.sellBillItems :
                it.billId = hist.id /\ it.productRef = p.id) =>
                    SoldOn(db, hist.id, p.id) <= p.quantity

\* A request is refused at its second line: both lines are for one product,
\* each within the stock on its own, the two together beyond it.
C27_Witness ==
    /\ Failed("createSellBill")
    /\ hist.at # NoTx
    /\ hist.at.i = 2
    /\ response.message.kind = "insufficient"
    /\ LET first == hist.at.items[1]
           second == hist.at.items[2]
       IN  /\ first.uniqueId = second.uniqueId
           /\ \E p \in ProductsByUniqueId(hist.before, first.uniqueId) :
                 /\ first.quantity <= p.quantity
                 /\ second.quantity <= p.quantity
                 /\ first.quantity + second.quantity > p.quantity

----------------------------------------------------------------------------
(* Deleting a bill that is not on record *)

Deletions == {"deleteBuyBill", "deleteSellBill"}

\* The bill a finished deletion named.
DeletedId == IF hist.outcome = "committed" THEN hist.id ELSE hist.at.id

\* The bill a finished deletion named was on record when the request came.
WasOnRecord ==
    IF hist.op = "deleteBuyBill"
    THEN \E b \in hist.before.buyBills : b.id = DeletedId
    ELSE \E b \in hist.before.sellBills : b.id = DeletedId

\* C28: a deletion of a purchase bill or a sale bill that is not on record,
\* because it was deleted before or because its id was never given to a
\* bill, leaves the database as it was, products and other bills included,
\* and, unless a statement failed in the database, is answered with success.
C28_DeleteAgainChangesNothing ==
    (Finished /\ hist.op \in Deletions /\ ~WasOnRecord) =>
        /\ db = hist.before
        /\ \/ hist.outcome = "committed" /\ response.status = 200
           \/ hist.outcome = "failed" /\ response.message.kind = "database"

\* The first purchase bill, the only one so far, is deleted a second time:
\* its product is on record and the bill is not.
C28_Witness ==
    /\ Committed("deleteBuyBill")
    /\ hist.id = 1
    /\ seq.buyBills = 2
    /\ hist.before.buyBills = {}
    /\ hist.before.products # {}
    /\ response.status = 200

----------------------------------------------------------------------------
(* The chart and the totals of the year *)

\* The sum of a field of the monthlyData entries.
SumOfEntries(data, field) ==
    SumOver(DOMAIN data, [i \in DOMAIN data |-> data[i][field]])

\* C29: the profit values of the monthlyData entries of a dashboard answer
\* sum to its totalYearlyProfit and their revenue values to its
\* totalYearlyRevenue, whatever sale bills and expenses are on record.
C29_ChartSumsToYear ==
    response.op = "getDashboardStats" =>
        /\ SumOfEntries(response.stats.monthlyData, "profit")
             = response.stats.totalYearlyProfit
        /\ SumOfEntries(response.stats.monthlyData, "revenue")
             = response.stats.totalYearlyRevenue

\* The chart has a month of sales and a month of expenses alone, and a sale
\* bill dated outside the selected year is on record.
C29_Witness ==
    /\ response.op = "getDashboardStats"
    /\ LET data == response.stats.monthlyData
       IN  /\ \E i \in DOMAIN data : data[i].revenue > 0
           /\ \E i \in DOMAIN data : data[i].revenue = 0 /\ data[i].profit < 0
    /\ \E b \in db.sellBills : b.billDate[1] # response.targetYear
    /\ response.stats.totalYearlyRevenue > 0

----------------------------------------------------------------------------
(* Deleting a purchase and the sales on record *)

\* C30: a deletion of a purchase bill, committed or refused, leaves every
\* sale bill and every sale line as it was, the profit per unit and the
\* total profit of the lines and the totals of the bills included.
C30_DeletePurchaseKeepsSales ==
    (Finished /\ hist.op = "deleteBuyBill") =>
        /\ db.sellBills = hist.before.sellBills
        /\ db.sellBillItems = hist.before.sellBillItems

\* A purchase bill is deleted and changes the average cost of a product that
\* a sale line on record sold.
C30_Witness ==
    /\ Committed("deleteBuyBill")
    /\ WasOnRecord
    /\ \E it \in db.sellBillItems :
          \E p \in db.products, q \in hist.before.products :
              /\ p.id = it.productRef
              /\ q.id = it.productRef
              /\ p.quantity > 0
              /\ p.averageBuyPrice # q.averageBuyPrice

----------------------------------------------------------------------------
(* Two requests at a time: what they leave *)

\* Two requests of the operation ran at a time and both have ended.
RanTogether(op) ==
    /\ hist.op = "concurrent"
    /\ hist.both
    /\ \A k \in Sessions : hist.done[k].op = op

\* The units of a product that the sale lines committed by the two hold.
SoldTogether(productId) ==
    LET lines == {it \in db.sellBillItems \ hist.before.sellBillItems :
                    it.productRef = productId}
    IN  SumOver(lines, [it \in lines |-> it.quantity])

\* C24: after two sale requests that ran at a time, in whatever order their
\* statements came, the sales that committed hold no more units of a product
\* than it had before them, and the product is left with the quantity it had
\* less the units of the committed sales.
C24_NoLostDecrement ==
    RanTogether("createSellBill") =>
        \A p \in hist.before.products :
            /\ SoldTogether(p.id) <= p.quantity
            /\ \A q \in db.products :
                   q.id = p.id => q.quantity = p.quantity - SoldTogether(p.id)

\* The averages that two purchase lines leave when recorded one after the
\* other on a product.
InTurn(initial, a, b) ==
    UNION { NewAverage(avg, initial.quantity + a.quantity, b.buyPrice, b.quantity) :
              avg \in NewAverage(initial.averageBuyPrice, initial.quantity,
                                 a.buyPrice, a.quantity) }

\* C25: after two purchase requests of one line each for the same identifier
\* that ran at a time, in whatever order their statements came, one product
\* has the identifier, with the quantity it had before plus the quantities
\* of both lines and the average that the two requests leave when run one
\* after the other.
C25_PurchasesAsIfInTurn ==
    RanTogether("createBuyBill") =>
        LET a == hist.done[1].items[1]
            b == hist.done[2].items[1]
            before == {p \in hist.before.products : p.uniqueId = UniqueIdOf(a)}
            initial == IF before = {}
                       THEN [quantity |-> 0, averageBuyPrice |-> 0]
                       ELSE CHOOSE p \in before : TRUE
            found == {p \in db.products : p.uniqueId = UniqueIdOf(a)}
        IN  UniqueIdOf(a) = UniqueIdOf(b) =>
              /\ Cardinality(found) = 1
              /\ \A p \in found :
                    /\ p.quantity = initial.quantity + a.quantity + b.quantity
                    /\ p.averageBuyPrice \in
                          InTurn(initial, a, b) \cup InTurn(initial, b, a)

====
